---------------------------- MODULE Spec2Model ----------------------------
(***************************************************************************)
(* A model of two components of the training code:                         *)
(*                                                                         *)
(*   training/optimizer/grad_scalar.py                                     *)
(*       GradScaler, ConstantGradScaler, DynamicGradScaler                 *)
(*   training/data_parallel/dist_dp_allreduce.py                           *)
(*       AllReduceDP: gradient all-reduce on a communication stream,       *)
(*       optimizer update on the compute stream, ordered by CUDA events    *)
(*                                                                         *)
(* Numbers.  A Python float argument is modelled as 0 or +-2^exp, a        *)
(* float32 tensor element as zero, 2^exp (FloatMinExp..FloatMaxExp), inf   *)
(* or nan.  On powers of two float32 multiplication is exact except for    *)
(* overflow (inf), underflow (zero) and the invalid operation inf * 0.     *)
(***************************************************************************)
EXTENDS Integers, Sequences, FiniteSets, TLC

VARIABLES
    \* ---- grad_scalar.py ----
    cls,        \* "none" | "DynamicGradScaler" | "ConstantGradScaler" | "AssertionError"
    args,       \* the arguments the constructor was called with
    self,       \* the attributes of the constructed scaler
    saved,      \* the dictionaries state_dict() has returned (the latest one kept)
    savedAt,    \* history: the attributes of the scaler when `saved` was taken, and the calls made until then
    log,        \* history: the update / load_state_dict calls made, with the state before each
    aliased,    \* saved[1]['scale'] and self._scale are the same tensor object
    resumed,    \* a second scaler, restored from a snapshot of the first
    \* ---- dist_dp_allreduce.py ----
    dp,         \* the AllReduceDP object: how construction ended, its arguments, its attributes
    grad,       \* grad[name]: parameter `name` has a gradient (para.grad is not None)
    stream,     \* stream[s]: the operations enqueued on CUDA stream s and not yet begun
    running,    \* running[s]: the kernel stream s is executing, if any
    event,      \* event[e]: the record calls made on event e, and the latest of them reached
    pending,    \* a backward pass was launched since the last optimizer_step
    issued,     \* history: every operation ever enqueued on each stream, in order
    started,    \* history: the kernels that have begun executing
    finished,   \* history: the kernels that have completed
    passed,     \* history: the wait_event operations the streams have gone past
    steps,      \* history: one record per optimizer_step call
    trace       \* what the calls of profiling_data_parallel returned or raised

scalerVars == <<cls, args, self, saved, savedAt, log, aliased, resumed>>

dpVars == <<dp, grad, stream, running, event, pending, issued, started, finished, passed, steps, trace>>

vars == <<scalerVars, dpVars>>

-----------------------------------------------------------------------------
(* Bounds of the model *)

\* Calls of update / load_state_dict explored on one scaler.
MaxCalls == 3
\* load_state_dict calls explored on one scaler.
MaxLoads == 1
\* Largest growth_interval and hysteresis passed to the constructor.
MaxInterval == 2
MaxHysteresis == 2
\* optimizer_step calls explored on one AllReduceDP.
MaxSteps == 2
\* profiling_data_parallel calls explored on one AllReduceDP.
MaxProfiles == 1

(* float32: the largest and the smallest power of two a FloatTensor holds *)
FloatMaxExp == 127
FloatMinExp == -149

-----------------------------------------------------------------------------
(* Python floats (constructor arguments): sgn * 2^exp *)

Py(s, e) == [sgn |-> s, exp |-> e]

\* x < y
PyLt(x, y) ==
    \/ x.sgn < y.sgn
    \/ x.sgn = 1 /\ y.sgn = 1 /\ x.exp < y.exp
    \/ x.sgn = -1 /\ y.sgn = -1 /\ x.exp > y.exp
\* x > y, x <= y
PyGt(x, y) == PyLt(y, x)
PyLe(x, y) == ~PyLt(y, x)

(* float32 tensor elements *)
F32Zero == [cls |-> "zero", exp |-> 0]
F32Inf == [cls |-> "inf", exp |-> 0]
F32NaN == [cls |-> "nan", exp |-> 0]
F32Fin(e) == [cls |-> "fin", exp |-> e]

\* 2^e rounded to float32 (round to nearest even: 2^(FloatMinExp-1) is a tie and goes to 0).
F32Round(e) ==
    IF e > FloatMaxExp THEN F32Inf
    ELSE IF e < FloatMinExp THEN F32Zero
    ELSE F32Fin(e)

\* torch.cuda.FloatTensor([x]) for a Python float x > 0.0
FloatTensor(x) == F32Round(x.exp)

\* a * b on float32 tensors (non-negative operands)
FMul(a, b) ==
    IF a.cls = "nan" \/ b.cls = "nan" THEN F32NaN
    ELSE IF (a.cls = "inf" /\ b.cls = "zero") \/ (a.cls = "zero" /\ b.cls = "inf") THEN F32NaN
    ELSE IF a.cls = "zero" \/ b.cls = "zero" THEN F32Zero
    ELSE IF a.cls = "inf" \/ b.cls = "inf" THEN F32Inf
    ELSE F32Round(a.exp + b.exp)

\* a >= b on float32 tensors: false when either is nan
FGe(a, b) ==
    /\ a.cls # "nan"
    /\ b.cls # "nan"
    /\ \/ a.cls = "inf"
       \/ b.cls = "zero"
       \/ a.cls = "fin" /\ b.cls = "fin" /\ a.exp >= b.exp

\* torch.max(a, b), elementwise maximum: a nan operand is returned
FMax(a, b) ==
    IF a.cls = "nan" \/ b.cls = "nan" THEN F32NaN
    ELSE IF FGe(a, b) THEN a ELSE b

\* tensor.to(device): the same dtype and value on the scaler's device
ToDevice(t) == t

-----------------------------------------------------------------------------
(* GradScaler.__init__ and DynamicGradScaler.__init__ *)

NoObject == [none |-> TRUE]

\* GradScaler.__init__: assert initial_scale > 0.0
GradScaler_init_ok(a) == PyGt(a.initial_scale, Py(0, 0))

GradScaler_init(a) == [_scale |-> FloatTensor(a.initial_scale)]

\* Variant: `assert min_scale <= initial_scale` is missing.
DynamicGradScaler_init_ok_nomin(a) ==
    /\ GradScaler_init_ok(a)
    /\ PyGt(a.min_scale, Py(0, 0))
    /\ PyGt(a.growth_factor, Py(1, 0))
    /\ PyLt(a.backoff_factor, Py(1, 0))
    /\ PyGt(a.backoff_factor, Py(0, 0))
    /\ a.growth_interval > 0
    /\ a.hysteresis > 0

\* The asserts of DynamicGradScaler.__init__, in the order they run.
DynamicGradScaler_init_ok(a) ==
    /\ GradScaler_init_ok(a)
    /\ PyGt(a.min_scale, Py(0, 0))
    /\ PyLe(a.min_scale, a.initial_scale)
    /\ PyGt(a.growth_factor, Py(1, 0))
    /\ PyLt(a.backoff_factor, Py(1, 0))
    /\ PyGt(a.backoff_factor, Py(0, 0))
    /\ a.growth_interval > 0
    /\ a.hysteresis > 0

DynamicGradScaler_init(a) ==
    [_scale |-> GradScaler_init(a)._scale,
     min_scale |-> FloatTensor(a.min_scale),
     growth_factor |-> FloatTensor(a.growth_factor),
     backoff_factor |-> FloatTensor(a.backoff_factor),
     growth_interval |-> a.growth_interval,
     hysteresis |-> a.hysteresis,
     _growth_tracker |-> 0,
     _hysteresis_tracker |-> a.hysteresis]

(* update *)

\* Variant: the constant scaler backs off on an overflow.
ConstantGradScaler_update_backoff(s, found_inf) ==
    IF found_inf THEN [s EXCEPT !._scale = FMul(@, F32Fin(-1))] ELSE s

ConstantGradScaler_update(s, found_inf) == s

\* Variant: the growth branch does not reset the growth tracker.
DynamicGradScaler_update_noreset(s, found_inf) ==
    IF found_inf
    THEN LET s1 == [s EXCEPT !._growth_tracker = 0,
                             !._hysteresis_tracker = @ - 1]
         IN  IF s1._hysteresis_tracker <= 0
             THEN [s1 EXCEPT !._scale = FMax(FMul(s1._scale, s1.backoff_factor), s1.min_scale)]
             ELSE s1
    ELSE LET s1 == [s EXCEPT !._growth_tracker = @ + 1]
         IN  IF s1._growth_tracker = s1.growth_interval
             THEN [s1 EXCEPT !._hysteresis_tracker = s1.hysteresis,
                             !._scale = FMul(s1._scale, s1.growth_factor)]
             ELSE s1

\* Variant: the backoff fires one overflow early (<= 1 for <= 0).
DynamicGradScaler_update_early(s, found_inf) ==
    IF found_inf
    THEN LET s1 == [s EXCEPT !._growth_tracker = 0,
                             !._hysteresis_tracker = @ - 1]
         IN  IF s1._hysteresis_tracker <= 1
             THEN [s1 EXCEPT !._scale = FMax(FMul(s1._scale, s1.backoff_factor), s1.min_scale)]
             ELSE s1
    ELSE LET s1 == [s EXCEPT !._growth_tracker = @ + 1]
         IN  IF s1._growth_tracker = s1.growth_interval
             THEN [s1 EXCEPT !._growth_tracker = 0,
                             !._hysteresis_tracker = s1.hysteresis,
                             !._scale = FMul(s1._scale, s1.growth_factor)]
             ELSE s1

\* Variant: an overflow does not set the growth tracker to 0.
DynamicGradScaler_update_nogrowthreset(s, found_inf) ==
    IF found_inf
    THEN LET s1 == [s EXCEPT !._hysteresis_tracker = @ - 1]
         IN  IF s1._hysteresis_tracker <= 0
             THEN [s1 EXCEPT !._scale = FMax(FMul(s1._scale, s1.backoff_factor), s1.min_scale)]
             ELSE s1
    ELSE LET s1 == [s EXCEPT !._growth_tracker = @ + 1]
         IN  IF s1._growth_tracker = s1.growth_interval
             THEN [s1 EXCEPT !._growth_tracker = 0,
                             !._hysteresis_tracker = s1.hysteresis,
                             !._scale = FMul(s1._scale, s1.growth_factor)]
             ELSE s1

\* Variant: a backoff sets the hysteresis tracker back to hysteresis.
DynamicGradScaler_update_backoff_resets(s, found_inf) ==
    IF found_inf
    THEN LET s1 == [s EXCEPT !._growth_tracker = 0,
                             !._hysteresis_tracker = @ - 1]
         IN  IF s1._hysteresis_tracker <= 0
             THEN [s1 EXCEPT !._scale = FMax(FMul(s1._scale, s1.backoff_factor), s1.min_scale),
                             !._hysteresis_tracker = s1.hysteresis]
             ELSE s1
    ELSE LET s1 == [s EXCEPT !._growth_tracker = @ + 1]
         IN  IF s1._growth_tracker = s1.growth_interval
             THEN [s1 EXCEPT !._growth_tracker = 0,
                             !._hysteresis_tracker = s1.hysteresis,
                             !._scale = FMul(s1._scale, s1.growth_factor)]
             ELSE s1

\* Variant: the two factors are used in each other's branch.
DynamicGradScaler_update_swapped_factors(s, found_inf) ==
    IF found_inf
    THEN LET s1 == [s EXCEPT !._growth_tracker = 0,
                             !._hysteresis_tracker = @ - 1]
         IN  IF s1._hysteresis_tracker <= 0
             THEN [s1 EXCEPT !._scale = FMax(FMul(s1._scale, s1.growth_factor), s1.min_scale)]
             ELSE s1
    ELSE LET s1 == [s EXCEPT !._growth_tracker = @ + 1]
         IN  IF s1._growth_tracker = s1.growth_interval
             THEN [s1 EXCEPT !._growth_tracker = 0,
                             !._hysteresis_tracker = s1.hysteresis,
                             !._scale = FMul(s1._scale, s1.backoff_factor)]
             ELSE s1

\* Variant: the backoff fires one overflow late (< 0 for <= 0).
DynamicGradScaler_update_late(s, found_inf) ==
    IF found_inf
    THEN LET s1 == [s EXCEPT !._growth_tracker = 0,
                             !._hysteresis_tracker = @ - 1]
         IN  IF s1._hysteresis_tracker < 0
             THEN [s1 EXCEPT !._scale = FMax(FMul(s1._scale, s1.backoff_factor), s1.min_scale)]
             ELSE s1
    ELSE LET s1 == [s EXCEPT !._growth_tracker = @ + 1]
         IN  IF s1._growth_tracker = s1.growth_interval
             THEN [s1 EXCEPT !._growth_tracker = 0,
                             !._hysteresis_tracker = s1.hysteresis,
                             !._scale = FMul(s1._scale, s1.growth_factor)]
             ELSE s1

DynamicGradScaler_update(s, found_inf) ==
    IF found_inf
    THEN LET s1 == [s EXCEPT !._growth_tracker = 0,
                             !._hysteresis_tracker = @ - 1]
         IN  IF s1._hysteresis_tracker <= 0
             THEN [s1 EXCEPT !._scale = FMax(FMul(s1._scale, s1.backoff_factor), s1.min_scale)]
             ELSE s1
    ELSE LET s1 == [s EXCEPT !._growth_tracker = @ + 1]
         IN  IF s1._growth_tracker = s1.growth_interval
             THEN [s1 EXCEPT !._growth_tracker = 0,
                             !._hysteresis_tracker = s1.hysteresis,
                             !._scale = FMul(s1._scale, s1.growth_factor)]
             ELSE s1

\* update assigns self._scale in the branch that backs off and in the branch
\* that grows.
DynamicGradScaler_update_assigns_scale(s, found_inf) ==
    IF found_inf THEN s._hysteresis_tracker - 1 <= 0
    ELSE s._growth_tracker + 1 = s.growth_interval

\* Variant: update writes the new scale into the tensor that is self._scale
\* (torch.max(..., out=self._scale), self._scale *= self.growth_factor).
DynamicGradScaler_update_old_scale_inplace(s, found_inf) ==
    DynamicGradScaler_update(s, found_inf)._scale

\* The tensor that was self._scale when update was called, after the call:
\* torch.max and * return new tensors, which update assigns to self._scale; the
\* old tensor keeps its value.
DynamicGradScaler_update_old_scale(s, found_inf) == s._scale

(* state_dict / load_state_dict *)

EmptyDict == [k \in {} |-> 0]

ConstantGradScaler_state_dict(s) == EmptyDict

ConstantGradScaler_load_state_dict(s, sd) == s

DynamicGradScaler_state_dict(s) ==
    [scale |-> s._scale,
     growth_tracker |-> s._growth_tracker,
     hysteresis_tracker |-> s._hysteresis_tracker]

\* Variant: the two trackers are read from each other's key.
DynamicGradScaler_load_state_dict_swapped(s, sd) ==
    IF "scale" \notin DOMAIN sd THEN s
    ELSE LET s1 == [s EXCEPT !._scale = ToDevice(sd.scale)]
         IN  IF "hysteresis_tracker" \notin DOMAIN sd THEN s1
             ELSE LET s2 == [s1 EXCEPT !._growth_tracker = sd.hysteresis_tracker]
                  IN  IF "growth_tracker" \notin DOMAIN sd THEN s2
                      ELSE [s2 EXCEPT !._hysteresis_tracker = sd.growth_tracker]

\* Variant: the trackers are not restored.
DynamicGradScaler_load_state_dict_scale_only(s, sd) ==
    IF "scale" \notin DOMAIN sd THEN s
    ELSE [s EXCEPT !._scale = ToDevice(sd.scale)]

\* The three assignments run in order; a missing key raises KeyError and the
\* assignments before it have taken effect.
DynamicGradScaler_load_state_dict(s, sd) ==
    IF "scale" \notin DOMAIN sd THEN s
    ELSE LET s1 == [s EXCEPT !._scale = ToDevice(sd.scale)]
         IN  IF "growth_tracker" \notin DOMAIN sd THEN s1
             ELSE LET s2 == [s1 EXCEPT !._growth_tracker = sd.growth_tracker]
                  IN  IF "hysteresis_tracker" \notin DOMAIN sd THEN s2
                      ELSE [s2 EXCEPT !._hysteresis_tracker = sd.hysteresis_tracker]

-----------------------------------------------------------------------------
(* The calls a training run makes on a scaler *)

InitialScales == {Py(0, 0), Py(1, 16), Py(1, FloatMaxExp)}
MinScales == {Py(0, 0), Py(1, 0), Py(1, 16), Py(1, FloatMaxExp + 1)}
GrowthFactors == {Py(1, 0), Py(1, 1)}
BackoffFactors == {Py(0, 0), Py(1, 0), Py(1, -1), Py(1, FloatMinExp - 51)}

DynamicArgs ==
    [initial_scale : InitialScales, min_scale : MinScales,
     growth_factor : GrowthFactors, backoff_factor : BackoffFactors,
     growth_interval : 0..MaxInterval, hysteresis : 0..MaxHysteresis]

ConstantArgs == [initial_scale : InitialScales \cup {Py(-1, 0)}]

\* Snapshots that no state_dict call of this scaler produced.
ForeignSnapshots ==
    {[scale |-> F32Fin(3), growth_tracker |-> 7, hysteresis_tracker |-> -2],
     [scale |-> F32Fin(5), growth_tracker |-> 1]}

NoArgs == [none |-> TRUE]

NoResumed == [obj |-> NoObject, at |-> 0, fed |-> 0]

InitScaler ==
    /\ cls = "none"
    /\ args = NoArgs
    /\ self = NoObject
    /\ saved = << >>
    /\ savedAt = << >>
    /\ log = << >>
    /\ aliased = FALSE
    /\ resumed = NoResumed

NewDynamicGradScaler(a) ==
    /\ cls = "none"
    /\ args' = a
    /\ IF DynamicGradScaler_init_ok(a)
       THEN cls' = "DynamicGradScaler" /\ self' = DynamicGradScaler_init(a)
       ELSE cls' = "AssertionError" /\ self' = NoObject
    /\ UNCHANGED <<saved, savedAt, log, aliased, resumed>>
    /\ UNCHANGED dpVars

NewConstantGradScaler(a) ==
    /\ cls = "none"
    /\ args' = a
    /\ IF GradScaler_init_ok(a)
       THEN cls' = "ConstantGradScaler" /\ self' = GradScaler_init(a)
       ELSE cls' = "AssertionError" /\ self' = NoObject
    /\ UNCHANGED <<saved, savedAt, log, aliased, resumed>>
    /\ UNCHANGED dpVars

Update(found_inf) ==
    /\ cls \in {"DynamicGradScaler", "ConstantGradScaler"}
    /\ Len(log) < MaxCalls
    /\ self' = IF cls = "DynamicGradScaler"
               THEN DynamicGradScaler_update(self, found_inf)
               ELSE ConstantGradScaler_update(self, found_inf)
    /\ log' = Append(log, [op |-> "update", found_inf |-> found_inf,
                           pre |-> self, sd |-> EmptyDict, own |-> FALSE])
    /\ saved' = IF aliased
                THEN << [saved[1] EXCEPT
                           !.scale = DynamicGradScaler_update_old_scale(self, found_inf)] >>
                ELSE saved
    /\ aliased' = (aliased /\ ~DynamicGradScaler_update_assigns_scale(self, found_inf))
    /\ UNCHANGED <<cls, args, savedAt, resumed>>
    /\ UNCHANGED dpVars

StateDict ==
    /\ cls \in {"DynamicGradScaler", "ConstantGradScaler"}
    /\ saved' = << IF cls = "DynamicGradScaler"
                   THEN DynamicGradScaler_state_dict(self)
                   ELSE ConstantGradScaler_state_dict(self) >>
    /\ savedAt' = << self, Len(log) >>
    /\ aliased' = (cls = "DynamicGradScaler")
    /\ UNCHANGED <<cls, args, self, log, resumed>>
    /\ UNCHANGED dpVars

Loads == Cardinality({i \in 1..Len(log) : log[i].op = "load_state_dict"})

Load(sd, own) ==
    /\ cls \in {"DynamicGradScaler", "ConstantGradScaler"}
    /\ Len(log) < MaxCalls
    /\ Loads < MaxLoads
    /\ self' = IF cls = "DynamicGradScaler"
               THEN DynamicGradScaler_load_state_dict(self, sd)
               ELSE ConstantGradScaler_load_state_dict(self, sd)
    /\ log' = Append(log, [op |-> "load_state_dict", found_inf |-> FALSE,
                           pre |-> self, sd |-> sd, own |-> own])
    /\ aliased' = IF cls = "DynamicGradScaler" /\ "scale" \in DOMAIN sd THEN own ELSE aliased
    /\ UNCHANGED <<cls, args, saved, savedAt, resumed>>
    /\ UNCHANGED dpVars

\* load_state_dict with the snapshot state_dict returned earlier
LoadStateDict ==
    /\ saved # << >>
    /\ Load(saved[1], TRUE)

\* load_state_dict with any other dictionary
LoadForeign ==
    /\ \E sd \in ForeignSnapshots : Load(sd, FALSE)

\* Resume from a checkpoint: a second DynamicGradScaler is constructed with the
\* arguments of the first and loads the snapshot state_dict returned.
Resume ==
    /\ cls = "DynamicGradScaler"
    /\ saved # << >>
    /\ resumed = NoResumed
    /\ resumed' = [obj |-> DynamicGradScaler_load_state_dict(DynamicGradScaler_init(args),
                                                             saved[1]),
                   at |-> savedAt[2], fed |-> 0]
    /\ UNCHANGED <<cls, args, self, saved, savedAt, log, aliased>>
    /\ UNCHANGED dpVars

\* The resumed scaler is given the found_inf of the next step the first scaler
\* went through after the snapshot.
ResumedUpdate ==
    /\ resumed # NoResumed
    /\ resumed.at + resumed.fed < Len(log)
    /\ LET call == log[resumed.at + resumed.fed + 1]
       IN  /\ call.op = "update"
           /\ resumed' = [resumed EXCEPT
                             !.obj = DynamicGradScaler_update(@, call.found_inf),
                             !.fed = @ + 1]
    /\ UNCHANGED <<cls, args, self, saved, savedAt, log, aliased>>
    /\ UNCHANGED dpVars

-----------------------------------------------------------------------------
(* AllReduceDP: streams, events and the operations enqueued on them *)

\* module.named_parameters(), in insertion order
Params == <<"w", "b">>
ParamNames == {Params[i] : i \in 1..Len(Params)}

None == "None"

Streams == {"dp_comm_stream", "torch_optim_comp_stream"}

\* The events of one AllReduceDP; the per-parameter profiling events carry the
\* parameter's name.
Ev(e, name) == <<e, name>>
Events ==
    {Ev(e, None) : e \in {"backward_ready_event", "allreduce_grad_ready_event",
                          "optimizer_step_ready_event", "allreduce_gradients_start_event",
                          "optimizer_step_start_event"}}
    \cup {Ev(e, n) : e \in {"allreduce_gradients_start_events",
                            "allreduce_gradients_end_events"}, n \in ParamNames}

\* Operations on a stream.  A record_event carries the number of the record call
\* on its event (ver); a wait_event carries the record call it waits for, the
\* latest one made when wait_event was called (0: the event was never recorded).
Kernel(kind, k, name) == [kind |-> kind, ev |-> Ev(None, None), ver |-> 0, step |-> k, name |-> name]
RecordOp(e, v, k) == [kind |-> "record_event", ev |-> e, ver |-> v, step |-> k, name |-> None]
WaitOp(e, v, k) == [kind |-> "wait_event", ev |-> e, ver |-> v, step |-> k, name |-> None]

Idle == [kind |-> "idle", ev |-> Ev(None, None), ver |-> 0, step |-> 0, name |-> None]

IsKernel(op) == op.kind \in {"backward", "all_reduce", "optimizer.step"}

\* stream.record_event(e), called when e has been recorded rec[e] times
record_event(e, rec, k) == <<RecordOp(e, rec[e] + 1, k)>>

\* Variant: wait_event waits for the next record call to be made on e.
wait_event_next(e, rec, k) == <<WaitOp(e, rec[e] + 1, k)>>

\* stream.wait_event(e): waits for the latest record call made on e so far;
\* a no-op on an event that was never recorded
wait_event(e, rec, k) == <<WaitOp(e, rec[e], k)>>

\* A wait_event lets its stream go on once the record it waits for is reached.
EventReady(op) == event[op.ev].reached >= op.ver

profile_mark_allreduce_start(d, name, rec, k) ==
    IF d.enable_tidy_profiling
    THEN IF name = None
         THEN record_event(Ev("allreduce_gradients_start_event", None), rec, k)
         ELSE record_event(Ev("allreduce_gradients_start_events", name), rec, k)
    ELSE << >>

profile_mark_allreduce_end(d, name, rec, k) ==
    IF d.enable_tidy_profiling /\ name # None
    THEN record_event(Ev("allreduce_gradients_end_events", name), rec, k)
    ELSE << >>

profile_mark_optimizer_step_start(d, rec, k) ==
    IF d.enable_tidy_profiling
    THEN record_event(Ev("optimizer_step_start_event", None), rec, k)
    ELSE << >>

\* The body of `for name, para in self.module.named_parameters()` from the i-th
\* parameter on: the operations it enqueues on dp_comm_stream.
RECURSIVE NamedParametersLoop(_, _, _, _, _)
\* Variant: a parameter without gradient ends the loop (break for continue).
NamedParametersLoop_break(d, g, rec, k, i) ==
    IF i > Len(Params) THEN << >>
    ELSE IF ~g[Params[i]] THEN << >>
    ELSE profile_mark_allreduce_start(d, Params[i], rec, k)
         \o <<Kernel("all_reduce", k, Params[i])>>
         \o profile_mark_allreduce_end(d, Params[i], rec, k)
         \o NamedParametersLoop(d, g, rec, k, i + 1)

NamedParametersLoop(d, g, rec, k, i) ==
    IF i > Len(Params) THEN << >>
    ELSE (IF ~g[Params[i]] THEN << >>
          ELSE profile_mark_allreduce_start(d, Params[i], rec, k)
               \o <<Kernel("all_reduce", k, Params[i])>>
               \o profile_mark_allreduce_end(d, Params[i], rec, k))
         \o NamedParametersLoop(d, g, rec, k, i + 1)

\* Variant: allreduce_grad_ready_event is recorded before the reductions.
_allreduce_gradients_record_first(d, g, rec, k) ==
    wait_event(Ev("backward_ready_event", None), rec, k)
    \o record_event(Ev("allreduce_grad_ready_event", None), rec, k)
    \o (IF d.flatten
        THEN profile_mark_allreduce_start(d, None, rec, k)
             \o <<Kernel("all_reduce", k, "flatten_para.grad")>>
             \o profile_mark_allreduce_end(d, None, rec, k)
        ELSE NamedParametersLoop(d, g, rec, k, 1))

\* Variant: the communication stream does not wait for backward_ready_event.
_allreduce_gradients_nowait(d, g, rec, k) ==
    (IF d.flatten
     THEN profile_mark_allreduce_start(d, None, rec, k)
          \o <<Kernel("all_reduce", k, "flatten_para.grad")>>
          \o profile_mark_allreduce_end(d, None, rec, k)
     ELSE NamedParametersLoop(d, g, rec, k, 1))
    \o record_event(Ev("allreduce_grad_ready_event", None), rec, k)

\* Variant: the communication stream waits for optimizer_step_ready_event
\* where it should wait for backward_ready_event.
_allreduce_gradients_wait_step_ready(d, g, rec, k) ==
    wait_event(Ev("optimizer_step_ready_event", None), rec, k)
    \o (IF d.flatten
        THEN profile_mark_allreduce_start(d, None, rec, k)
             \o <<Kernel("all_reduce", k, "flatten_para.grad")>>
             \o profile_mark_allreduce_end(d, None, rec, k)
        ELSE NamedParametersLoop(d, g, rec, k, 1))
    \o record_event(Ev("allreduce_grad_ready_event", None), rec, k)

\* _allreduce_gradients: the operations it enqueues on dp_comm_stream
_allreduce_gradients(d, g, rec, k) ==
    wait_event(Ev("backward_ready_event", None), rec, k)
    \o (IF d.flatten
        THEN profile_mark_allreduce_start(d, None, rec, k)
             \o <<Kernel("all_reduce", k, "flatten_para.grad")>>
             \o profile_mark_allreduce_end(d, None, rec, k)
        ELSE NamedParametersLoop(d, g, rec, k, 1))
    \o record_event(Ev("allreduce_grad_ready_event", None), rec, k)

\* Variant: the compute stream does not wait for allreduce_grad_ready_event.
optimizer_step_comp_nowait(d, rec, k) ==
    profile_mark_optimizer_step_start(d, rec, k)
    \o <<Kernel("optimizer.step", k, None)>>
    \o record_event(Ev("optimizer_step_ready_event", None), rec, k)

\* optimizer_step after _allreduce_gradients: the operations it enqueues on
\* torch_optim_comp_stream (rec counts the record calls made so far, those of
\* _allreduce_gradients included)
optimizer_step_comp(d, rec, k) ==
    wait_event(Ev("allreduce_grad_ready_event", None), rec, k)
    \o profile_mark_optimizer_step_start(d, rec, k)
    \o <<Kernel("optimizer.step", k, None)>>
    \o record_event(Ev("optimizer_step_ready_event", None), rec, k)

\* The record calls per event after the operations ops were enqueued.
RecordedAfter(rec, ops) ==
    [e \in Events |->
        rec[e] + Cardinality({i \in 1..Len(ops) : ops[i].kind = "record_event" /\ ops[i].ev = e})]

Recorded == [e \in Events |-> event[e].recorded]

-----------------------------------------------------------------------------
(* AllReduceDP: construction, the caller's backward pass, optimizer_step,
   and the execution of the two streams *)

DPArgs == [flatten : BOOLEAN, profiling : {"tidy_profiling", "no-profiling"},
           optimizer : {None, "optimizer"}]

\* assert optimizer is not None
AllReduceDP_init_ok(a) == a.optimizer # None

AllReduceDP_init(a) ==
    [flatten |-> a.flatten,
     enable_tidy_profiling |-> (a.profiling = "tidy_profiling"),
     optimizer |-> a.optimizer]

InitDP ==
    /\ dp = [state |-> "none", args |-> NoArgs, self |-> NoObject]
    /\ grad = [n \in ParamNames |-> FALSE]
    /\ stream = [s \in Streams |-> << >>]
    /\ running = [s \in Streams |-> Idle]
    /\ event = [e \in Events |-> [recorded |-> 0, reached |-> 0]]
    /\ pending = FALSE
    /\ issued = [s \in Streams |-> << >>]
    /\ started = {}
    /\ finished = {}
    /\ passed = {}
    /\ steps = << >>
    /\ trace = << >>

NewAllReduceDP(a) ==
    /\ dp.state = "none"
    /\ dp' = IF AllReduceDP_init_ok(a)
             THEN [state |-> "AllReduceDP", args |-> a, self |-> AllReduceDP_init(a)]
             ELSE [state |-> "AssertionError", args |-> a, self |-> NoObject]
    /\ UNCHANGED <<grad, stream, running, event, pending, issued, started, finished, passed, steps>>
    /\ UNCHANGED <<scalerVars, trace>>

Enqueue(s, ops) ==
    /\ stream' = [stream EXCEPT ![s] = @ \o ops]
    /\ issued' = [issued EXCEPT ![s] = @ \o ops]

\* The caller's backward pass of the next step: it runs on the compute stream
\* and leaves a gradient in the parameters in g; with rec the caller then
\* records backward_ready_event on the compute stream.
Backward(g, rec) ==
    /\ dp.state = "AllReduceDP"
    /\ ~pending
    /\ Len(steps) < MaxSteps
    /\ LET k == Len(steps) + 1
           ops == <<Kernel("backward", k, None)>>
                  \o (IF rec THEN record_event(Ev("backward_ready_event", None), Recorded, k)
                      ELSE << >>)
       IN  /\ Enqueue("torch_optim_comp_stream", ops)
           /\ event' = [e \in Events |->
                          [event[e] EXCEPT !.recorded = RecordedAfter(Recorded, ops)[e]]]
    /\ grad' = g
    /\ pending' = TRUE
    /\ UNCHANGED <<dp, running, started, finished, passed, steps>>
    /\ UNCHANGED <<scalerVars, trace>>

\* The gradients a backward pass can leave: in flattened mode every parameter's
\* gradient is a view of flatten_para.grad.
Grads == IF dp.self.flatten THEN {[n \in ParamNames |-> TRUE]} ELSE [ParamNames -> BOOLEAN]

CallerBackward ==
    /\ dp.state = "AllReduceDP"
    /\ \E g \in Grads : Backward(g, TRUE)

CallerBackwardNoRecord ==
    /\ dp.state = "AllReduceDP"
    /\ \E g \in Grads : Backward(g, FALSE)

\* The backward pass whose completion the latest record of backward_ready_event marks.
LastRecordedBackward ==
    LET q == issued["torch_optim_comp_stream"]
        I == {i \in 1..Len(q) : q[i].kind = "record_event"
                                /\ q[i].ev = Ev("backward_ready_event", None)}
    IN  IF I = {} THEN 0 ELSE q[CHOOSE i \in I : \A j \in I : j <= i].step

optimizer_step ==
    /\ dp.state = "AllReduceDP"
    /\ Len(steps) < MaxSteps
    /\ LET k == Len(steps) + 1
           comm == _allreduce_gradients(dp.self, grad, Recorded, k)
           rec1 == RecordedAfter(Recorded, comm)
           comp == optimizer_step_comp(dp.self, rec1, k)
           rec2 == RecordedAfter(rec1, comp)
       IN  /\ stream' = [stream EXCEPT !["dp_comm_stream"] = @ \o comm,
                                       !["torch_optim_comp_stream"] = @ \o comp]
           /\ issued' = [issued EXCEPT !["dp_comm_stream"] = @ \o comm,
                                       !["torch_optim_comp_stream"] = @ \o comp]
           /\ event' = [e \in Events |-> [event[e] EXCEPT !.recorded = rec2[e]]]
           /\ steps' = Append(steps, [grad |-> grad,
                                      bwver |-> Recorded[Ev("backward_ready_event", None)],
                                      bwstep |-> LastRecordedBackward])
    /\ pending' = FALSE
    /\ UNCHANGED <<dp, grad, running, started, finished, passed>>
    /\ UNCHANGED <<scalerVars, trace>>

\* optimizer_step as the training loop calls it: once per step, after the
\* backward pass of the step.
CallerOptimizerStep ==
    /\ pending
    /\ optimizer_step

\* a.elapsed_time(b) returns a time when both events were recorded and their
\* latest records are reached; it raises RuntimeError otherwise.
Timed(e) == event[e].recorded >= 1 /\ event[e].reached = event[e].recorded

\* One entry of profiling_log: its name, args.para, and the events its ts and
\* dur are read from, with the records of them that are read.
LogEntry(name, para, from, to) ==
    [name |-> name, para |-> para,
     start |-> <<from, event[from].recorded>>, end |-> <<to, event[to].recorded>>]

\* `for name, para in self.module.named_parameters()` of profiling_data_parallel
\* from the i-th parameter on: one entry per parameter.
RECURSIVE ProfilingLoop(_)
ProfilingLoop(i) ==
    IF i > Len(Params) THEN << >>
    ELSE <<LogEntry("opt_allreduce", Params[i],
                    Ev("allreduce_gradients_start_events", Params[i]),
                    Ev("allreduce_gradients_end_events", Params[i]))>>
         \o ProfilingLoop(i + 1)

\* The events profiling_data_parallel reads the elapsed time of.
ProfilingReads(d) ==
    (IF d.flatten
     THEN {Ev("allreduce_gradients_start_event", None), Ev("allreduce_grad_ready_event", None)}
     ELSE {Ev(e, n) : e \in {"allreduce_gradients_start_events",
                             "allreduce_gradients_end_events"}, n \in ParamNames})
    \cup {Ev("optimizer_step_start_event", None), Ev("optimizer_step_ready_event", None)}

\* profiling_data_parallel(init_time_stamp, init_event), init_event recorded
\* and reached: the log it returns, or the exception it raises.  Without
\* tidy_profiling the profiling events are not attributes of the object.
profiling_data_parallel_result(d) ==
    IF ~d.enable_tidy_profiling
    THEN [status |-> "AttributeError", log |-> << >>]
    ELSE IF \E e \in ProfilingReads(d) : ~Timed(e)
    THEN [status |-> "RuntimeError", log |-> << >>]
    ELSE [status |-> "ok",
          log |-> (IF d.flatten
                   THEN <<LogEntry("opt_allreduce", "flattened_grad",
                                   Ev("allreduce_gradients_start_event", None),
                                   Ev("allreduce_grad_ready_event", None))>>
                   ELSE ProfilingLoop(1))
                  \o <<LogEntry("opt_comp", None,
                                Ev("optimizer_step_start_event", None),
                                Ev("optimizer_step_ready_event", None))>>]

\* The host has waited for both streams (torch.cuda.synchronize()).
Synchronized ==
    \A s \in Streams : stream[s] = << >> /\ running[s] = Idle

\* A call of profiling_data_parallel; the entry of trace also tells after which
\* step it was made and whether the streams were done.
profiling_data_parallel ==
    /\ dp.state = "AllReduceDP"
    /\ Len(trace) < MaxProfiles
    /\ trace' = Append(trace, [step |-> Len(steps), synchronized |-> Synchronized]
                              @@ profiling_data_parallel_result(dp.self))
    /\ UNCHANGED <<dp, grad, stream, running, event, pending, issued, started, finished, passed, steps>>
    /\ UNCHANGED scalerVars

\* Stream s reaches a wait_event whose record has been reached.
StreamWait(s) ==
    /\ running[s] = Idle
    /\ stream[s] # << >>
    /\ stream[s][1].kind = "wait_event"
    /\ EventReady(stream[s][1])
    /\ stream' = [stream EXCEPT ![s] = Tail(@)]
    /\ passed' = passed \cup {stream[s][1]}
    /\ UNCHANGED <<dp, grad, running, event, pending, issued, started, finished, steps>>
    /\ UNCHANGED <<scalerVars, trace>>

\* Stream s reaches a record_event: everything enqueued before it has completed.
StreamRecord(s) ==
    /\ running[s] = Idle
    /\ stream[s] # << >>
    /\ stream[s][1].kind = "record_event"
    /\ event' = [event EXCEPT ![stream[s][1].ev].reached = stream[s][1].ver]
    /\ stream' = [stream EXCEPT ![s] = Tail(@)]
    /\ UNCHANGED <<dp, grad, running, pending, issued, started, finished, passed, steps>>
    /\ UNCHANGED <<scalerVars, trace>>

\* Stream s begins its next kernel.
StreamLaunch(s) ==
    /\ running[s] = Idle
    /\ stream[s] # << >>
    /\ IsKernel(stream[s][1])
    /\ running' = [running EXCEPT ![s] = stream[s][1]]
    /\ started' = started \cup {stream[s][1]}
    /\ stream' = [stream EXCEPT ![s] = Tail(@)]
    /\ UNCHANGED <<dp, grad, event, pending, issued, finished, passed, steps>>
    /\ UNCHANGED <<scalerVars, trace>>

\* The kernel running on stream s completes.
StreamComplete(s) ==
    /\ running[s] # Idle
    /\ finished' = finished \cup {running[s]}
    /\ running' = [running EXCEPT ![s] = Idle]
    /\ UNCHANGED <<dp, grad, stream, event, pending, issued, started, passed, steps>>
    /\ UNCHANGED <<scalerVars, trace>>

\* Stream s takes its next step.
StreamStep(s) ==
    \/ StreamWait(s)
    \/ StreamRecord(s)
    \/ StreamLaunch(s)
    \/ StreamComplete(s)

NextStreams ==
    \/ \E s \in Streams : StreamWait(s)
    \/ \E s \in Streams : StreamRecord(s)
    \/ \E s \in Streams : StreamLaunch(s)
    \/ \E s \in Streams : StreamComplete(s)

\* Any caller: it may call optimizer_step without a backward pass before it, or
\* without having recorded backward_ready_event.
NextDP ==
    \/ \E a \in DPArgs : NewAllReduceDP(a)
    \/ CallerBackward
    \/ CallerBackwardNoRecord
    \/ optimizer_step
    \/ NextStreams

\* The training loop: in each step a backward pass, the record of
\* backward_ready_event on the compute stream, then optimizer_step.
NextDPProtocol ==
    \/ \E a \in DPArgs : NewAllReduceDP(a)
    \/ CallerBackward
    \/ CallerOptimizerStep
    \/ NextStreams

\* The training loop, which reads the profile after a step.
NextDPProfiling ==
    \/ NextDPProtocol
    \/ profiling_data_parallel

NextCtor ==
    \/ \E a \in DynamicArgs : NewDynamicGradScaler(a)
    \/ \E a \in ConstantArgs : NewConstantGradScaler(a)
    \/ \E a \in DPArgs : NewAllReduceDP(a)

\* Nothing is constructed yet.
Init == InitScaler /\ InitDP

NextUpdate ==
    \/ \E a \in DynamicArgs : NewDynamicGradScaler(a)
    \/ \E a \in ConstantArgs : NewConstantGradScaler(a)
    \/ \E found_inf \in BOOLEAN : Update(found_inf)

NextScaler ==
    \/ NextUpdate
    \/ StateDict
    \/ LoadStateDict

NextResume ==
    \/ NextUpdate
    \/ StateDict
    \/ Resume
    \/ ResumedUpdate

NextScalerAny ==
    \/ NextScaler
    \/ LoadForeign

\* A scaler that is constructed and then updated once per training step.
SpecUpdate == Init /\ [][NextUpdate]_vars

\* The same, with checkpoints: state_dict, and load_state_dict of its own snapshots.
SpecScaler == Init /\ [][NextScaler]_vars

\* A scaler that is updated and checkpointed, and a second scaler that resumes
\* from a checkpoint and goes through the same steps.
SpecResume == Init /\ [][NextResume]_vars

\* The same, and load_state_dict is also given snapshots from elsewhere.
SpecScalerAny == Init /\ [][NextScalerAny]_vars

\* An AllReduceDP, the caller's backward passes and optimizer_step calls, and
\* the two streams executing what was enqueued.
SpecDP == Init /\ [][NextDP]_vars

\* An AllReduceDP driven by the training loop.
SpecDPProtocol == Init /\ [][NextDPProtocol]_vars

\* An AllReduceDP driven by the training loop, with profiling_data_parallel.
SpecDPProfiling == Init /\ [][NextDPProfiling]_vars

\* The same, where each stream goes on whenever it can: it begins its next
\* operation when the one before has completed and the event it waits for is
\* reached, and every kernel completes.
SpecDPFair ==
    /\ Init
    /\ [][NextDPProtocol]_vars
    /\ \A s \in Streams : WF_vars(StreamStep(s))

\* The constructors alone, on any arguments.
SpecCtor == Init /\ [][NextCtor]_vars

-----------------------------------------------------------------------------
(* Properties of the scalers *)

IsDynamic == cls = "DynamicGradScaler"
IsConstant == cls = "ConstantGradScaler"

\* The last len calls were all update(found_inf).
RunOf(found_inf, len) ==
    /\ len >= 1
    /\ Len(log) >= len
    /\ \A k \in (Len(log) - len + 1)..Len(log) :
          log[k].op = "update" /\ log[k].found_inf = found_inf

\* The state in which the run of the last len calls started.
RunStart(len) == log[Len(log) - len + 1].pre

\* The found_inf values of the calls made so far, all of them updates.
Updates(fs) ==
    /\ Len(log) = Len(fs)
    /\ \A k \in 1..Len(fs) : log[k].op = "update" /\ log[k].found_inf = fs[k]

\* C2: for a DynamicGradScaler constructed with valid parameters,
\* scale >= min_scale holds after every call of update(found_inf).
C2_ScaleAtLeastMinScale ==
    (IsDynamic /\ Len(log) >= 1) => FGe(self._scale, self.min_scale)

\* C3: with growth_interval = N, a run of N consecutive update(false) calls that
\* starts with growth_tracker = 0 leaves scale unchanged during its first N - 1
\* calls; its N-th call multiplies scale by growth_factor once and resets
\* growth_tracker to 0 and hysteresis_tracker to hysteresis.
C3_GrowthAfterInterval ==
    IsDynamic =>
        \A len \in 1..self.growth_interval :
            (RunOf(FALSE, len) /\ RunStart(len)._growth_tracker = 0) =>
                IF len < self.growth_interval
                THEN self._scale = RunStart(len)._scale
                ELSE /\ self._scale = FMul(RunStart(len)._scale, self.growth_factor)
                     /\ self._growth_tracker = 0
                     /\ self._hysteresis_tracker = self.hysteresis

\* A run of growth_interval = 2 healthy steps from a fresh scaler has grown the scale.
C3_Witness ==
    /\ IsDynamic
    /\ self.growth_interval = 2
    /\ RunOf(FALSE, 2)
    /\ RunStart(2)._growth_tracker = 0
    /\ RunStart(2)._scale = F32Fin(16)
    /\ self._scale = F32Fin(17)

ExampleArgs ==
    [initial_scale |-> Py(1, 16), min_scale |-> Py(1, 0),
     growth_factor |-> Py(1, 1), backoff_factor |-> Py(1, -1),
     growth_interval |-> 2, hysteresis |-> 1]

\* C4: with hysteresis = H, a run of H consecutive update(true) calls that starts
\* with hysteresis_tracker = H leaves scale unchanged during its first H - 1
\* calls, and its H-th call sets scale to max(scale * backoff_factor, min_scale);
\* with initial_scale = 2^16, min_scale = 1, growth_factor = 2, backoff_factor = 0.5,
\* growth_interval = 2, hysteresis = 1 the calls [false, false, true] give
\* scale = 2^17, growth_tracker = 0 after the second and scale = 2^16,
\* hysteresis_tracker = 0 after the third.
C4_BackoffAfterHysteresis ==
    IsDynamic =>
        /\ \A len \in 1..self.hysteresis :
              (RunOf(TRUE, len) /\ RunStart(len)._hysteresis_tracker = self.hysteresis) =>
                  IF len < self.hysteresis
                  THEN self._scale = RunStart(len)._scale
                  ELSE self._scale = FMax(FMul(RunStart(len)._scale, self.backoff_factor),
                                          self.min_scale)
        /\ (args = ExampleArgs /\ Updates(<<FALSE, FALSE>>)) =>
              self._scale = F32Fin(17) /\ self._growth_tracker = 0
        /\ (args = ExampleArgs /\ Updates(<<FALSE, FALSE, TRUE>>)) =>
              self._scale = F32Fin(16) /\ self._hysteresis_tracker = 0

\* The example run has made its third call, the overflow that backs off.
C4_Witness ==
    /\ IsDynamic
    /\ args = ExampleArgs
    /\ Updates(<<FALSE, FALSE, TRUE>>)
    /\ RunStart(1)._scale = F32Fin(17)
    /\ RunStart(1)._hysteresis_tracker = 1

SnapshotKeys == {"scale", "growth_tracker", "hysteresis_tracker"}

\* C5: load_state_dict(state_dict()) restores exactly scale, growth_tracker and
\* hysteresis_tracker of the state the snapshot was taken in; the snapshot has
\* exactly these three fields; load_state_dict leaves min_scale, growth_factor,
\* backoff_factor, growth_interval and hysteresis as constructed, whatever the
\* snapshot contains.
C5_SnapshotRoundTrip ==
    IsDynamic =>
        /\ saved # << >> => DOMAIN saved[1] = SnapshotKeys
        /\ (Len(log) >= 1 /\ log[Len(log)].op = "load_state_dict" /\ log[Len(log)].own) =>
              /\ self._scale = savedAt[1]._scale
              /\ self._growth_tracker = savedAt[1]._growth_tracker
              /\ self._hysteresis_tracker = savedAt[1]._hysteresis_tracker
        /\ self.min_scale = FloatTensor(args.min_scale)
        /\ self.growth_factor = FloatTensor(args.growth_factor)
        /\ self.backoff_factor = FloatTensor(args.backoff_factor)
        /\ self.growth_interval = args.growth_interval
        /\ self.hysteresis = args.hysteresis

\* A snapshot was taken, the scaler moved on in all three fields, and the
\* snapshot was loaded back.
C5_Witness ==
    /\ IsDynamic
    /\ Len(log) >= 2
    /\ log[Len(log)].op = "load_state_dict"
    /\ log[Len(log)].own
    /\ log[Len(log)].pre._scale # self._scale
    /\ log[Len(log)].pre._growth_tracker # self._growth_tracker
    /\ log[Len(log)].pre._hysteresis_tracker # self._hysteresis_tracker
    /\ self._growth_tracker # self._hysteresis_tracker

\* C6: the scale of a ConstantGradScaler is the initial_scale it was constructed
\* with (as a float32 tensor holds it) after any update, state_dict and
\* load_state_dict calls.
C6_ConstantScale ==
    IsConstant => self._scale = FloatTensor(args.initial_scale)

\* A constant scaler after an overflow step, a snapshot and a foreign load.
C6_Witness ==
    /\ IsConstant
    /\ saved # << >>
    /\ \E i, j \in 1..Len(log) :
          /\ log[i].op = "update" /\ log[i].found_inf
          /\ log[j].op = "load_state_dict" /\ ~log[j].own /\ "scale" \in DOMAIN log[j].sd

-----------------------------------------------------------------------------
(* Properties of AllReduceDP and of the constructors *)

BackwardReady == Ev("backward_ready_event", None)
AllreduceGradReady == Ev("allreduce_grad_ready_event", None)

CommQ == issued["dp_comm_stream"]
CompQ == issued["torch_optim_comp_stream"]

\* The places in the communication stream of what step k enqueued there.
CommOps(k, kind) == {i \in 1..Len(CommQ) : CommQ[i].kind = kind /\ CommQ[i].step = k}

\* The reductions step k enqueued.
Reductions(k) == {CommQ[i] : i \in CommOps(k, "all_reduce")}

\* The buffers step k enqueued a reduction for, in the order enqueued.
ReductionNames(k) ==
    LET q == SelectSeq(CommQ, LAMBDA op : op.kind = "all_reduce" /\ op.step = k)
    IN  [i \in 1..Len(q) |-> q[i].name]

\* C1: the optimizer update of a step does not begin executing until every
\* reduction enqueued by that step has completed, in flattened and in
\* per-parameter mode, also when allreduce_grad_ready_event is recorded again
\* by later steps.
C1_UpdateAfterReductions ==
    \A k \in 1..Len(steps) :
        Kernel("optimizer.step", k, None) \in started => Reductions(k) \subseteq finished

\* The update of the second step has begun; that step reduced two buffers and
\* recorded allreduce_grad_ready_event for the second time.
C1_Witness ==
    /\ Len(steps) = 2
    /\ Kernel("optimizer.step", 2, None) \in started
    /\ Cardinality(Reductions(2)) = 2
    /\ Cardinality(Reductions(1)) >= 1
    /\ event[AllreduceGradReady].recorded = 2

\* C7: when optimizer_step is called while backward_ready_event has not been
\* recorded, the wait on it is rejected or deferred: no reduction of that step
\* executes as if the wait had been satisfied.
C7_UnrecordedWaitNotIgnored ==
    \A k \in 1..Len(steps) :
        steps[k].bwver = 0 => Reductions(k) \cap started = {}

IsDynamicArgs(a) == "min_scale" \in DOMAIN a

\* The construction preconditions of DynamicGradScaler, as the claim lists them.
PreconditionViolated(a) ==
    \/ PyLe(a.initial_scale, Py(0, 0))
    \/ PyLe(a.min_scale, Py(0, 0))
    \/ PyGt(a.min_scale, a.initial_scale)
    \/ PyLe(a.growth_factor, Py(1, 0))
    \/ PyLe(a.backoff_factor, Py(0, 0))
    \/ ~PyLt(a.backoff_factor, Py(1, 0))
    \/ a.growth_interval <= 0
    \/ a.hysteresis <= 0

\* C8: construction fails, leaving no object, whenever a precondition is
\* violated (DynamicGradScaler: initial_scale <= 0, min_scale <= 0,
\* min_scale > initial_scale, growth_factor <= 1.0, backoff_factor <= 0 or
\* >= 1.0, growth_interval <= 0, hysteresis <= 0; AllReduceDP: no optimizer);
\* otherwise it succeeds with growth_tracker = 0 and
\* hysteresis_tracker = hysteresis.
C8_ConstructionFailsFast ==
    /\ (cls # "none" /\ IsDynamicArgs(args)) =>
          IF PreconditionViolated(args)
          THEN cls = "AssertionError" /\ self = NoObject
          ELSE /\ cls = "DynamicGradScaler"
               /\ self._growth_tracker = 0
               /\ self._hysteresis_tracker = args.hysteresis
               /\ self.growth_interval = args.growth_interval
               /\ self.hysteresis = args.hysteresis
    /\ dp.state # "none" =>
          IF dp.args.optimizer = None
          THEN dp.state = "AssertionError" /\ dp.self = NoObject
          ELSE dp.state = "AllReduceDP"

\* Both constructors have failed: a DynamicGradScaler whose only violated
\* precondition is min_scale <= initial_scale, an AllReduceDP without optimizer.
C8_Witness ==
    /\ cls = "AssertionError"
    /\ IsDynamicArgs(args)
    /\ PyGt(args.min_scale, args.initial_scale)
    /\ ~PreconditionViolated([args EXCEPT !.min_scale = args.initial_scale])
    /\ dp.state = "AssertionError"

\* C9: in per-parameter mode a step enqueues on the communication stream one
\* reduction for each parameter whose gradient is present, in the order of
\* named_parameters(), and none for a parameter without gradient, which neither
\* raises nor stops the reduction of later parameters; in flattened mode a step
\* enqueues one reduction, of flatten_para.grad.
C9_OneReductionPerGradient ==
    \A k \in 1..Len(steps) :
        /\ ReductionNames(k) =
              IF dp.self.flatten THEN <<"flatten_para.grad">>
              ELSE SelectSeq(Params, LAMBDA n : steps[k].grad[n])
        /\ \A i \in 1..Len(CompQ) : CompQ[i].kind # "all_reduce"

\* Per-parameter mode: the first parameter had no gradient, the second had one
\* and its reduction has completed.
C9_Witness ==
    /\ dp.state = "AllReduceDP"
    /\ ~dp.self.flatten
    /\ \E k \in 1..Len(steps) :
          /\ ~steps[k].grad[Params[1]]
          /\ steps[k].grad[Params[2]]
          /\ Kernel("all_reduce", k, Params[2]) \in finished

\* C10: within each step every reduction executes after the communication
\* stream has passed its wait on backward_ready_event (so after the backward
\* pass that event was recorded behind has completed) and before
\* allreduce_grad_ready_event is reached; that event is recorded on the
\* communication stream after the last reduction of the step, also when the
\* step reduces no buffer.
C10_ReductionsBetweenWaitAndRecord ==
    \A k \in 1..Len(steps) :
        LET waits == {i \in CommOps(k, "wait_event") : CommQ[i].ev = BackwardReady}
            reds == CommOps(k, "all_reduce")
            recs == {i \in CommOps(k, "record_event") : CommQ[i].ev = AllreduceGradReady}
        IN  /\ Cardinality(waits) = 1
            /\ Cardinality(recs) = 1
            /\ \A w \in waits, d \in recs : w < d
            /\ \A w \in waits, r \in reds, d \in recs : w < r /\ r < d
            /\ \A r \in reds :
                  CommQ[r] \in started =>
                      /\ \A w \in waits : CommQ[w] \in passed
                      /\ steps[k].bwstep >= 1 =>
                            Kernel("backward", steps[k].bwstep, None) \in finished
            /\ \A d \in recs :
                  event[AllreduceGradReady].reached >= CommQ[d].ver =>
                      \A r \in reds : CommQ[r] \in finished

\* Per-parameter mode: a step with every gradient absent has reached its
\* allreduce_grad_ready_event, after a step that reduced a buffer behind a
\* recorded backward pass.
C10_Witness ==
    /\ dp.state = "AllReduceDP"
    /\ ~dp.self.flatten
    /\ Len(steps) = 2
    /\ steps[1].bwstep = 1
    /\ Reductions(1) # {}
    /\ Reductions(1) \subseteq finished
    /\ \A n \in ParamNames : ~steps[2].grad[n]
    /\ event[AllreduceGradReady].reached = 2

Comm == running["dp_comm_stream"]
Comp == running["torch_optim_comp_stream"]

\* C11: when the caller records backward_ready_event on the compute stream
\* after each backward pass and before optimizer_step, no reduction executes
\* while a backward pass or an optimizer update executes, of any step, in any
\* interleaving of the two streams.
C11_ExclusiveGradientAccess ==
    Comm.kind = "all_reduce" => Comp = Idle

\* A reduction of the second step executes; the update of the first step and
\* the backward pass of the second have completed.
C11_Witness ==
    /\ Len(steps) = 2
    /\ Comm.kind = "all_reduce"
    /\ Comm.step = 2
    /\ Kernel("optimizer.step", 1, None) \in finished
    /\ Kernel("backward", 2, None) \in finished

\* The wait_event operations step k enqueued on stream q.
Waits(q, k) == {i \in 1..Len(q) : q[i].kind = "wait_event" /\ q[i].step = k}

RecordStep(ev) ==
    LET R == {op \in UNION {{issued[s][i] : i \in 1..Len(issued[s])} : s \in Streams} :
                 op.kind = "record_event" /\ <<op.ev, op.ver>> = ev}
    IN  IF R = {} THEN 0 ELSE (CHOOSE op \in R : TRUE).step

\* The buffers the reduction entries of a profiling log name, in order.
ReductionEntries(lg) == SelectSeq(lg, LAMBDA r : r.name = "opt_allreduce")
ParaOf(lg) == [i \in 1..Len(lg) |-> lg[i].para]

\* C13: with profiling enabled, profiling_data_parallel called after a step
\* returns, in per-parameter mode, one reduction entry for each buffer reduced
\* in that step, its start and end events recorded in that step, and none for
\* a parameter skipped for its absent gradient, followed by one entry for the
\* optimizer update, and reads no event that was not recorded; in flattened
\* mode it returns one reduction entry and one update entry.
C13_OneEntryPerReducedBuffer ==
    \A i \in 1..Len(trace) :
        LET t == trace[i]
            reds == ReductionEntries(t.log)
        IN  (dp.self.enable_tidy_profiling /\ t.step >= 1 /\ t.synchronized) =>
                /\ t.status = "ok"
                /\ ParaOf(reds) = IF dp.self.flatten THEN <<"flattened_grad">>
                                  ELSE SelectSeq(Params, LAMBDA n : steps[t.step].grad[n])
                /\ \A j \in 1..Len(reds) :
                      RecordStep(reds[j].start) = t.step /\ RecordStep(reds[j].end) = t.step
                /\ Len(t.log) = Len(reds) + 1
                /\ t.log[Len(t.log)].name = "opt_comp"

-----------------------------------------------------------------------------
(* Properties of DynamicGradScaler.update over a sequence of calls *)

\* a < b on float32 tensors: false when either is nan
FLt(a, b) == FGe(b, a) /\ a # b

\* The scaler after the k-th call.
PostOf(k) == IF k < Len(log) THEN log[k + 1].pre ELSE self

IsUpdate(k, found_inf) == log[k].op = "update" /\ log[k].found_inf = found_inf

\* The k-th call reduced / increased the scale.
Reduces(k) == FLt(PostOf(k)._scale, log[k].pre._scale)
Increases(k) == FLt(log[k].pre._scale, PostOf(k)._scale)

\* The k-th call is an update(false) that completes a growth interval.
CompletesGrowth(k) ==
    IsUpdate(k, FALSE) /\ log[k].pre._growth_tracker + 1 = self.growth_interval

\* The update(true) calls up to the k-th since construction or since the last
\* call before the k-th that completed a growth interval.
OverflowsSinceReset(k) ==
    {j \in 1..k : IsUpdate(j, TRUE) /\ \A i \in j..k : ~CompletesGrowth(i)}

\* C14: from a freshly constructed DynamicGradScaler, the first update that
\* reduces scale is the last of at least `hysteresis` consecutive update(true)
\* calls, and an overflow step that follows a healthy step never reduces the
\* scale (hysteresis >= 2).
C14_ConsecutiveOverflows ==
    IsDynamic =>
        \A k \in 1..Len(log) :
            /\ (Reduces(k) /\ \A j \in 1..(k - 1) : ~Reduces(j)) =>
                  /\ k >= self.hysteresis
                  /\ \A j \in (k - self.hysteresis + 1)..k : IsUpdate(j, TRUE)
            /\ (Reduces(k) /\ self.hysteresis >= 2) =>
                  k >= 2 /\ IsUpdate(k - 1, TRUE)

\* C14, amended: every update that reduces scale is an update(true) and at
\* least the hysteresis-th update(true), consecutive or not, since construction
\* or since the last update(false) that completed a growth interval.
C14_OverflowsSinceReset ==
    IsDynamic =>
        \A k \in 1..Len(log) :
            Reduces(k) =>
                /\ IsUpdate(k, TRUE)
                /\ Cardinality(OverflowsSinceReset(k)) >= self.hysteresis

\* hysteresis = 2: two overflow steps separated by a healthy step, the second
\* of them reduces the scale.
C14_Witness ==
    /\ IsDynamic
    /\ self.hysteresis = 2
    /\ self.growth_interval = 2
    /\ Updates(<<TRUE, FALSE, TRUE>>)
    /\ log[3].pre._scale = F32Fin(16)
    /\ self.backoff_factor = F32Fin(-1)
    /\ self._scale = F32Fin(15)

\* C15: an update increases scale only if it and the growth_interval - 1
\* updates immediately before it were all update(false); every update(true)
\* sets growth_tracker to 0.
C15_GrowthNeedsHealthyInterval ==
    IsDynamic =>
        \A k \in 1..Len(log) :
            /\ Increases(k) =>
                  /\ k >= self.growth_interval
                  /\ \A j \in (k - self.growth_interval + 1)..k : IsUpdate(j, FALSE)
            /\ IsUpdate(k, TRUE) => PostOf(k)._growth_tracker = 0

\* growth_interval = 2: an overflow, then two healthy steps, the second of
\* which increases the scale.
C15_Witness ==
    /\ IsDynamic
    /\ self.growth_interval = 2
    /\ Updates(<<TRUE, FALSE, FALSE>>)
    /\ log[2].pre._growth_tracker = 0
    /\ ~Increases(2)
    /\ Increases(3)

\* C16: after any update calls and load_state_dict calls with snapshots that
\* state_dict of the same scaler returned, 0 <= growth_tracker <=
\* growth_interval and hysteresis_tracker <= hysteresis.
C16_TrackerBounds ==
    IsDynamic =>
        /\ 0 <= self._growth_tracker
        /\ self._growth_tracker <= self.growth_interval
        /\ self._hysteresis_tracker <= self.hysteresis

\* A snapshot was loaded back, which changed the scaler, and a healthy step
\* then brought growth_tracker to growth_interval - 1 >= 1.
C16_Witness ==
    /\ IsDynamic
    /\ \E i \in 1..Len(log) :
          log[i].op = "load_state_dict" /\ log[i].own /\ log[i].pre # PostOf(i)
    /\ IsUpdate(Len(log), FALSE)
    /\ self._growth_tracker >= 1
    /\ self._growth_tracker = self.growth_interval - 1

\* C17: a backoff does not reset hysteresis_tracker: every update(true)
\* decrements it, and once it is <= 0 every further update(true) also sets
\* scale to max(scale * backoff_factor, min_scale); an update(false) that does
\* not complete a growth interval leaves it unchanged; it returns to
\* hysteresis only in an update(false) that brings growth_tracker to
\* growth_interval.
C17_BackoffKeepsHysteresisTracker ==
    IsDynamic =>
        \A k \in 1..Len(log) :
            LET pre == log[k].pre
                post == PostOf(k)
            IN  /\ IsUpdate(k, TRUE) =>
                      post._hysteresis_tracker = pre._hysteresis_tracker - 1
                /\ (IsUpdate(k, TRUE) /\ pre._hysteresis_tracker <= 0) =>
                      post._scale = FMax(FMul(pre._scale, self.backoff_factor), self.min_scale)
                /\ (IsUpdate(k, FALSE) /\ ~CompletesGrowth(k)) =>
                      post._hysteresis_tracker = pre._hysteresis_tracker
                /\ (post._hysteresis_tracker = self.hysteresis
                      /\ pre._hysteresis_tracker # self.hysteresis) => CompletesGrowth(k)

\* hysteresis = 1: two overflows back off twice, from 2^16 to 2^14, and a
\* healthy step that completes no growth interval leaves the tracker at -1.
C17_Witness ==
    /\ IsDynamic
    /\ self.hysteresis = 1
    /\ Updates(<<TRUE, TRUE, FALSE>>)
    /\ log[1].pre._scale = F32Fin(16)
    /\ log[2].pre._scale = F32Fin(15)
    /\ log[3].pre._scale = F32Fin(14)
    /\ log[3].pre._hysteresis_tracker = -1
    /\ self._hysteresis_tracker = -1

OptimizerStepReady == Ev("optimizer_step_ready_event", None)

\* Step k is done: its reductions and its update have completed and its record
\* of optimizer_step_ready_event is reached.
StepDone(k) ==
    /\ Reductions(k) \subseteq finished
    /\ Kernel("optimizer.step", k, None) \in finished
    /\ event[OptimizerStepReady].reached >= k

\* C18: when the caller records backward_ready_event before each
\* optimizer_step and both streams go on whenever they can, every step's
\* reductions eventually complete, its update eventually executes and its
\* record of optimizer_step_ready_event is eventually reached.
C18_EveryStepCompletes ==
    \A k \in 1..MaxSteps : (Len(steps) >= k) ~> StepDone(k)

\* The second step is done, in per-parameter mode with two reductions.
C18_Witness ==
    /\ Len(steps) = 2
    /\ StepDone(2)
    /\ Cardinality(Reductions(2)) = 2
    /\ Synchronized

Trackers(s) == <<s._scale, s._growth_tracker, s._hysteresis_tracker>>

\* C19: a snapshot state_dict returned is not changed by later update calls on
\* the scaler it came from, and a DynamicGradScaler constructed with the same
\* arguments and restored from it has, after each update, the scale,
\* growth_tracker and hysteresis_tracker the first scaler has after the same
\* found_inf inputs since the snapshot.
C19_ResumeEquivalence ==
    IsDynamic =>
        /\ saved # << >> => saved[1] = DynamicGradScaler_state_dict(savedAt[1])
        /\ resumed # NoResumed =>
              /\ Trackers(resumed.obj) = Trackers(PostOf(resumed.at + resumed.fed))
              /\ resumed.obj = PostOf(resumed.at + resumed.fed)

\* The snapshot was taken after an overflow at hysteresis = 2; the first scaler
\* then went through an overflow that backed off and a healthy step, and the
\* resumed scaler has gone through both.
C19_Witness ==
    /\ IsDynamic
    /\ self.hysteresis = 2
    /\ Updates(<<TRUE, TRUE, FALSE>>)
    /\ resumed.at = 1
    /\ resumed.fed = 2
    /\ savedAt[1]._hysteresis_tracker = 1
    /\ saved[1].scale # self._scale
    /\ resumed.obj._scale = self._scale
    /\ resumed.obj._growth_tracker = 1

\* The configuration of a scaler: what the constructor sets and update reads.
Config(s) == <<s.min_scale, s.growth_factor, s.backoff_factor, s.growth_interval, s.hysteresis>>

\* What an update call may do to scale, and what it leaves alone.
UpdateSetsScaleOnce(k) ==
    LET pre == log[k].pre
        post == PostOf(k)
    IN  /\ IsUpdate(k, TRUE) =>
              post._scale \in {pre._scale,
                               FMax(FMul(pre._scale, pre.backoff_factor), pre.min_scale)}
        /\ IsUpdate(k, FALSE) =>
              post._scale \in {pre._scale, FMul(pre._scale, pre.growth_factor)}
        /\ log[k].op = "update" => Config(post) = Config(pre)

=============================================================================
